---- MODULE Spec2Model ----
(***************************************************************************)
(* The LINE webhook handler of src/index.js: a batch of events is handled  *)
(* in array order against an in-memory copy of the user Store that is      *)
(* loaded once per delivery and written back wholesale by every accepted   *)
(* /add and /setgoal.  Awaited calls (reply API, price provider) are the   *)
(* only points where another delivery can run.                             *)
(*                                                                         *)
(* Numbers.  A JavaScript number is a record [k, v]: k = "num" with v the  *)
(* value, k = "inf" with v the sign, k = "nan"; JSON null is k = "null".   *)
(* Held quantities are carried in tenths (one decimal digit), goals and    *)
(* prices in units, USD/TWD totals in tenths, percent in hundredths.       *)
(* Strings are sequences of one-character strings.                         *)
(***************************************************************************)
EXTENDS Integers, Sequences, FiniteSets, TLC

\* ------------------------------------------------------------- bounds
MaxBatch == 2
MaxOverlaps == 1

\* ------------------------------------------------------------ numbers
Num(n) == [k |-> "num", v |-> n]
NaN == [k |-> "nan", v |-> 0]
Inf(sign) == [k |-> "inf", v |-> sign]
Null == [k |-> "null", v |-> 0]

Abs(n) == IF n < 0 THEN -n ELSE n
Sign(n) == IF n < 0 THEN -1 ELSE IF n > 0 THEN 1 ELSE 0

\* ToNumber on a stored value: null coerces to 0.
ToNumber(x) == IF x.k = "null" THEN Num(0) ELSE x

\* isNaN(x)
isNaN(x) == x.k = "nan"

\* a * b for an integer factor n and a number x (IEEE: 0 * Infinity is NaN).
Times(n, x) ==
    LET y == ToNumber(x) IN
    CASE y.k = "num" -> Num(n * y.v)
      [] y.k = "inf" -> IF n = 0 THEN NaN ELSE Inf(Sign(n) * y.v)
      [] OTHER -> NaN

\* a + b (IEEE: Infinity + -Infinity is NaN).
Plus(a, b) ==
    LET x == ToNumber(a)
        y == ToNumber(b) IN
    CASE x.k = "nan" \/ y.k = "nan" -> NaN
      [] x.k = "inf" /\ y.k = "inf" -> IF x.v = y.v THEN x ELSE NaN
      [] x.k = "inf" -> x
      [] y.k = "inf" -> y
      [] OTHER -> Num(x.v + y.v)

\* ------------------------------------------------------------ strings
Digits == {"0", "1", "2", "3", "4", "5", "6", "7", "8", "9"}
DigitVal(c) ==
    CASE c = "0" -> 0 [] c = "1" -> 1 [] c = "2" -> 2 [] c = "3" -> 3
      [] c = "4" -> 4 [] c = "5" -> 5 [] c = "6" -> 6 [] c = "7" -> 7
      [] c = "8" -> 8 [] c = "9" -> 9

UpperChars == <<"A","B","C","D","E","F","G","H","I","J","K","L","M",
                "N","O","P","Q","R","S","T","U","V","W","X","Y","Z">>
LowerChars == <<"a","b","c","d","e","f","g","h","i","j","k","l","m",
                "n","o","p","q","r","s","t","u","v","w","x","y","z">>
IndexIn(c, s) == IF \E i \in 1..Len(s) : s[i] = c
                 THEN CHOOSE i \in 1..Len(s) : s[i] = c ELSE 0

\* String.prototype.toLowerCase / toUpperCase
toLowerCase(s) ==
    [i \in 1..Len(s) |->
        IF IndexIn(s[i], UpperChars) > 0
        THEN LowerChars[IndexIn(s[i], UpperChars)] ELSE s[i]]
toUpperCase(s) ==
    [i \in 1..Len(s) |->
        IF IndexIn(s[i], LowerChars) > 0
        THEN UpperChars[IndexIn(s[i], LowerChars)] ELSE s[i]]

\* The value of a destructured position the array does not have.
Undefined == <<"undefined">>
\* !x for a string or undefined
Falsy(s) == s = Undefined \/ s = <<>>

Drop(s, n) == IF n >= Len(s) THEN <<>> ELSE SubSeq(s, n + 1, Len(s))
Take(s, n) == IF n >= Len(s) THEN s ELSE SubSeq(s, 1, n)

\* String.prototype.trim (spaces)
RECURSIVE TrimLeft(_)
TrimLeft(s) == IF s # <<>> /\ s[1] = " " THEN TrimLeft(Tail(s)) ELSE s
RECURSIVE TrimRight(_)
TrimRight(s) ==
    IF s # <<>> /\ s[Len(s)] = " " THEN TrimRight(Take(s, Len(s) - 1)) ELSE s
trim(s) == TrimRight(TrimLeft(s))

\* String.prototype.split(' '): every single space separates two fields.
RECURSIVE SplitFrom(_, _)
SplitFrom(s, field) ==
    IF s = <<>> THEN <<field>>
    ELSE IF s[1] = " " THEN <<field>> \o SplitFrom(Tail(s), <<>>)
    ELSE SplitFrom(Tail(s), Append(field, s[1]))
split(s) == SplitFrom(s, <<>>)

\* const [cmd, symbol, amount] = ...: position i, undefined when absent.
Destructure(parts, i) == IF i <= Len(parts) THEN parts[i] ELSE Undefined

\* Length of the longest prefix of s made of decimal digits.
RECURSIVE DigitRun(_)
DigitRun(s) ==
    IF s # <<>> /\ s[1] \in Digits THEN 1 + DigitRun(Tail(s)) ELSE 0
\* The value of a sequence of decimal digits.
RECURSIVE DigitsValue(_)
DigitsValue(s) ==
    IF s = <<>> THEN 0
    ELSE 10 * DigitsValue(Take(s, Len(s) - 1)) + DigitVal(s[Len(s)])

InfinityWord == <<"I","n","f","i","n","i","t","y">>
HasSign(s) == s # <<>> /\ s[1] \in {"+", "-"}
SignOf(s) == IF s # <<>> /\ s[1] = "-" THEN -1 ELSE 1

\* parseFloat: optional sign, then "Infinity" or the longest decimal
\* literal; the result is in tenths, digits after the first decimal digit
\* are dropped, and exponents are not read.
parseFloat(s) ==
    LET t == TrimLeft(s)
        body == IF HasSign(t) THEN Tail(t) ELSE t
        sgn == SignOf(t)
        n == DigitRun(body)
        rest == Drop(body, n)
        hasDot == rest # <<>> /\ rest[1] = "."
        m == IF hasDot THEN DigitRun(Tail(rest)) ELSE 0
        whole == DigitsValue(Take(body, n))
        tenth == IF m > 0 THEN DigitVal(rest[2]) ELSE 0
    IN  IF Take(body, Len(InfinityWord)) = InfinityWord THEN Inf(sgn)
        ELSE IF n = 0 /\ m = 0 THEN NaN
        ELSE Num(sgn * (10 * whole + tenth))

\* parseInt (radix 10): optional sign, then the longest run of digits.
parseInt(s) ==
    LET t == TrimLeft(s)
        body == IF HasSign(t) THEN Tail(t) ELSE t
        n == DigitRun(body)
    IN  IF n = 0 THEN NaN ELSE Num(SignOf(t) * DigitsValue(Take(body, n)))

\* -------------------------------------------------------------- store
EmptyMap == [x \in {} |-> Null]
Put(f, key, val) ==
    [x \in DOMAIN f \cup {key} |-> IF x = key THEN val ELSE f[x]]

\* { goal: 0, assets: {} }
DefaultRecord == [goal |-> Num(0), assets |-> EmptyMap]

\* JSON.stringify of a number: Infinity, -Infinity and NaN are written null.
JSONnumber(x) == IF x.k \in {"inf", "nan"} THEN Null ELSE x
\* JSON.stringify(data, null, 2): the text, as the value it denotes.
JSONstringify(data) ==
    [u \in DOMAIN data |->
        [goal |-> JSONnumber(data[u].goal),
         assets |-> [s \in DOMAIN data[u].assets |->
                        JSONnumber(data[u].assets[s])]]]
\* JSON.parse of a text JSON.stringify wrote.
JSONparse(text) == text

NoFile == [exists |-> FALSE, text |-> EmptyMap]
\* Mutant: the file is never read.
loadUserData_Fresh(f) == EmptyMap
\* loadUserData(): {} when the file does not exist.
loadUserData(f) == IF ~f.exists THEN EmptyMap ELSE JSONparse(f.text)
\* saveUserData(data): the file after the write.
saveUserData(data) == [exists |-> TRUE, text |-> JSONstringify(data)]

\* userData[userId] = userData[userId] || { goal: 0, assets: {} }
EnsureRecord(data, userId) ==
    IF userId \in DOMAIN data THEN data ELSE Put(data, userId, DefaultRecord)

\* userData[userId].assets[symbol.toLowerCase()] = parseFloat(amount)
SetAsset(data, userId, symbol, amount) ==
    [data EXCEPT ![userId].assets =
        Put(@, toLowerCase(symbol), parseFloat(amount))]

\* userData[userId].goal = parseInt(symbol)
SetGoal(data, userId, symbol) ==
    [data EXCEPT ![userId].goal = parseInt(symbol)]

\* ------------------------------------------------------- price lookup
NoId == "null"
\* cryptoSymbolToId: map[symbol.toLowerCase()] || null
cryptoSymbolToId(symbol) ==
    LET s == toLowerCase(symbol) IN
    CASE s = <<"b","t","c">> -> "bitcoin"
      [] s = <<"e","t","h">> -> "ethereum"
      [] s = <<"u","s","d","t">> -> "tether"
      [] OTHER -> NoId

\* Object.keys(assets), as a sequence.
RECURSIVE ObjectKeys(_)
ObjectKeys(assets) ==
    IF DOMAIN assets = {} THEN <<>>
    ELSE LET key == CHOOSE x \in DOMAIN assets : TRUE
         IN  <<key>> \o ObjectKeys([x \in DOMAIN assets \ {key} |-> assets[x]])

\* symbols.map(cryptoSymbolToId).filter(Boolean)
RECURSIVE ResolveAll(_)
ResolveAll(symbols) ==
    IF symbols = <<>> THEN <<>>
    ELSE (IF cryptoSymbolToId(symbols[1]) = NoId THEN <<>>
          ELSE <<cryptoSymbolToId(symbols[1])>>) \o ResolveAll(Tail(symbols))

\* What getCryptoPrices returns: response.data (a map from identifier to
\* its usd price) or { error: ... }.
PriceData(usd) == [error |-> "", usd |-> usd]
PriceError(code) == [error |-> code, usd |-> EmptyMap]
\* getCryptoPrices' catch: 429 is RATE_LIMIT, anything else API_ERROR.
getCryptoPricesCatch(status) ==
    IF status = 429 THEN PriceError("RATE_LIMIT") ELSE PriceError("API_ERROR")

\* !prices[id]
NoPrice(prices, id) == id \notin DOMAIN prices.usd

\* The for (const s of symbols) loop of /status: the running total and the
\* detail lines.
RECURSIVE Valuation(_, _, _)
Valuation(symbols, assets, prices) ==
    IF symbols = <<>> THEN [totalUSD |-> Num(0), detail |-> <<>>]
    ELSE LET s == symbols[Len(symbols)]
             before == Valuation(Take(symbols, Len(symbols) - 1), assets, prices)
             id == cryptoSymbolToId(s)
             price == prices.usd[id]
             value == Times(price, assets[s])
         IN  IF NoPrice(prices, id) THEN before
             ELSE [totalUSD |-> Plus(before.totalUSD, value),
                   detail |-> Append(before.detail,
                                [symbol |-> toUpperCase(s), quantity |-> assets[s],
                                 price |-> price, value |-> value])]

\* The fixed USD to TWD rate.
ExchangeRate == 32
\* Mutant: the total is not converted.
ToTWD_Unconverted(totalUSD) == totalUSD
\* totalUSD * 32
ToTWD(totalUSD) == Times(ExchangeRate, totalUSD)

NotApplicable == [k |-> "N/A", v |-> 0]
\* goal > 0 ? ((totalTWD / goal) * 100).toFixed(2) : 'N/A', in hundredths;
\* toFixed rounds the magnitude to the nearest hundredth, halves up.
Percent(totalTWD, goalValue) ==
    LET goal == IF goalValue.k = "num" THEN goalValue.v ELSE 0
        a == Abs(totalTWD.v)
        q == a \div goal
        r == a % goal
    IN  IF ~(goal > 0) THEN NotApplicable
        ELSE IF totalTWD.k # "num" THEN totalTWD
        ELSE Num(Sign(totalTWD.v)
                 * (q * 1000 + (2 * r * 1000 + goal) \div (2 * goal)))

\* ------------------------------------------------------------ replies
Msg(kind, body) == [kind |-> kind, body |-> body]
AddUsage == Msg("addUsage", <<>>)
Added(symbol, amount) == Msg("added", <<toUpperCase(symbol), amount>>)
GoalUsage == Msg("goalUsage", <<>>)
GoalSet(symbol) == Msg("goalSet", <<symbol>>)
NoHoldings == Msg("noHoldings", <<>>)
Unresolved == Msg("unresolved", <<>>)
RateLimited == Msg("rateLimit", <<>>)
Help == Msg("help", <<>>)
NoMsg == Msg("none", <<>>)
\* The summary reply of /status.
Summary(record, prices) ==
    LET val == Valuation(ObjectKeys(record.assets), record.assets, prices)
        totalTWD == ToTWD(val.totalUSD)
    IN  Msg("summary",
            <<[detail |-> val.detail, totalUSD |-> val.totalUSD,
               totalTWD |-> totalTWD,
               percent |-> Percent(totalTWD, record.goal)]>>)

\* ------------------------------------------------------------- events
Users == {"U1", "U2"}
Slots == {1, 2}

ADD == <<"/","a","d","d">>
SETGOAL == <<"/","s","e","t","g","o","a","l">>
STATUS == <<"/","s","t","a","t","u","s">>

RECURSIVE Join(_)
\* The words of a message text, joined by single spaces.
Join(words) ==
    IF Len(words) = 0 THEN <<>>
    ELSE IF Len(words) = 1 THEN words[1]
    ELSE words[1] \o <<" ">> \o Join(Tail(words))

\* A webhook event, as LINE delivers it.
TextEvent(userId, text) ==
    [type |-> "message", hasMessage |-> TRUE, messageType |-> "text",
     userId |-> userId, text |-> text]
StickerEvent(userId) ==
    [type |-> "message", hasMessage |-> TRUE, messageType |-> "sticker",
     userId |-> userId, text |-> <<>>]
FollowEvent(userId) ==
    [type |-> "follow", hasMessage |-> FALSE, messageType |-> "",
     userId |-> userId, text |-> <<>>]
\* A message event that lacks its message object.
BrokenEvent(userId) ==
    [type |-> "message", hasMessage |-> FALSE, messageType |-> "",
     userId |-> userId, text |-> <<>>]
NoEvent ==
    [type |-> "", hasMessage |-> FALSE, messageType |-> "",
     userId |-> "", text |-> <<>>]

Texts ==
    { Join(<<ADD, <<"B","T","C">>, <<"0",".","5">>>>),
      Join(<<ADD, <<"b","t","c">>, <<"2">>>>),
      Join(<<ADD, <<"e","t","h">>, <<"2">>>>),
      Join(<<ADD, <<"x","y","z">>, <<"5">>>>),
      Join(<<ADD, <<"b","t","c">>, <<"a","b","c">>>>),
      Join(<<ADD, <<"b","t","c">>, InfinityWord>>),
      Join(<<ADD, <<"b","t","c">>>>),
      Join(<<ADD>>),
      Join(<<SETGOAL, <<"1","0","0","0","0","0","0">>>>),
      Join(<<SETGOAL, <<"-","5">>>>),
      Join(<<SETGOAL, <<"a","b","c">>>>),
      Join(<<STATUS>>),
      Join(<<<<"h","i">>>>) }

\* What a second user sends.
OtherTexts ==
    { Join(<<ADD, <<"e","t","h">>, <<"2">>>>),
      Join(<<STATUS>>),
      Join(<<<<"h","i">>>>) }

Events ==
    { TextEvent("U1", t) : t \in Texts }
    \cup { TextEvent("U2", t) : t \in OtherTexts }
    \cup { StickerEvent("U2"), FollowEvent("U2"), BrokenEvent("U1") }

\* The events of overlapping deliveries.
FewEvents ==
    { TextEvent("U1", Join(<<ADD, <<"B","T","C">>, <<"0",".","5">>>>)),
      TextEvent("U1", Join(<<STATUS>>)),
      TextEvent("U2", Join(<<ADD, <<"e","t","h">>, <<"2">>>>)),
      StickerEvent("U2"), BrokenEvent("U1") }

\* The events of deliveries that carry one event each.
SingleEvents ==
    { TextEvent("U1", Join(<<ADD, <<"B","T","C">>, <<"0",".","5">>>>)),
      TextEvent("U1", Join(<<ADD, <<"e","t","h">>, <<"2">>>>)),
      TextEvent("U1", Join(<<ADD, <<"b","t","c">>, InfinityWord>>)),
      TextEvent("U1", Join(<<ADD, <<"b","t","c">>, <<"a","b","c">>>>)),
      TextEvent("U1", Join(<<SETGOAL, <<"1","0","0","0","0","0","0">>>>)),
      TextEvent("U1", Join(<<STATUS>>)),
      TextEvent("U2", Join(<<ADD, <<"e","t","h">>, <<"2">>>>)),
      TextEvent("U2", Join(<<STATUS>>)),
      StickerEvent("U2"), BrokenEvent("U1") }

\* What the price provider can answer.
PriceResponses ==
    { [status |-> 200, data |-> ("bitcoin" :> 50000 @@ "ethereum" :> 3000)],
      [status |-> 200, data |-> ("bitcoin" :> 50001)],
      [status |-> 429, data |-> EmptyMap],
      [status |-> 500, data |-> EmptyMap] }

\* getCryptoPrices(ids), given the provider's answer.
getCryptoPrices(response) ==
    IF response.status = 200 THEN PriceData(response.data)
    ELSE getCryptoPricesCatch(response.status)

\* ---------------------------------------------- the parsed text event
\* const msg = event.message.text.trim(); msg.split(' ')
Parts(e) == split(trim(e.text))
\* const [cmd, symbol, amount] = msg.split(' '), for every event there is.
Parsed ==
    [e \in Events \cup FewEvents |->
        [cmd |-> Destructure(Parts(e), 1), symbol |-> Destructure(Parts(e), 2),
         amount |-> Destructure(Parts(e), 3)]]
Cmd(e) == Parsed[e].cmd
Symbol(e) == Parsed[e].symbol
Amount(e) == Parsed[e].amount

\* event.type !== 'message' (checked first: the message is not read).
NotMessage(e) == e.type # "message"
\* Reading event.message.type of an event without a message throws.
ThrowsOnMessage(e) == e.type = "message" /\ ~e.hasMessage
\* Mutant: the message type is not looked at.
Ignored_TypeOnly(e) == NotMessage(e)
\* if (event.type !== 'message' || event.message.type !== 'text') continue
Ignored(e) == NotMessage(e) \/ (e.hasMessage /\ e.messageType # "text")

\* if (!symbol || isNaN(parseFloat(amount)))
AddRejected(e) == Falsy(Symbol(e)) \/ isNaN(parseFloat(Amount(e)))
\* if (isNaN(parseInt(symbol)))
GoalRejected(e) == isNaN(parseInt(Symbol(e)))

\* -------------------------------------------------------------- state
VARIABLES
    file,         \* userData.json
    running,      \* the delivery whose handler holds the thread, 0 if none
    pc,           \* per delivery: where its handler stands
    userData,     \* per delivery: the handler's in-memory Store
    remaining,    \* per delivery: events of the batch not yet taken
    event,        \* per delivery: the event being handled
    pending,      \* per delivery: the reply message being awaited
    prices,       \* per delivery: what getCryptoPrices returned
    obs,          \* per delivery: what the current event has done so far
    http,         \* per delivery: the batch and its HTTP response
    ref,          \* the commands so far, applied in arrival order
    contacted,    \* users whose text command reached the handler
    mutated,      \* users with an accepted /add or /setgoal
    overlaps      \* deliveries that arrived while another was being handled

vars == <<file, running, pc, userData, remaining, event, pending, prices,
          obs, http, ref, contacted, mutated, overlaps>>

NoPrices == PriceError("")
\* Nothing observed yet of an event; before is the Store it started from.
NoObs(isText, before) ==
    [isText |-> isText, replies |-> <<>>, fetches |-> <<>>, writes |-> 0,
     created |-> FALSE, thrown |-> FALSE, before |-> before]
NoHttp == [sent200 |-> 0, attempted |-> 0, batchLen |-> 0, failures |-> 0]

Init ==
    /\ file = NoFile
    /\ running = 0
    /\ pc = [d \in Slots |-> "idle"]
    /\ userData = [d \in Slots |-> EmptyMap]
    /\ remaining = [d \in Slots |-> 0]
    /\ event = [d \in Slots |-> NoEvent]
    /\ pending = [d \in Slots |-> NoMsg]
    /\ prices = [d \in Slots |-> NoPrices]
    /\ obs = [d \in Slots |-> NoObs(FALSE, EmptyMap)]
    /\ http = [d \in Slots |-> NoHttp]
    /\ ref = EmptyMap
    /\ contacted = {}
    /\ mutated = {}
    /\ overlaps = 0

Active(d) == pc[d] \in {"loop", "awaitReply", "awaitFetch", "done"}

\* An event with type "message" and message type "text".
IsText(e) == e.type = "message" /\ e.messageType = "text"

\* The record of a user in a Store, the default when it has none.
RecordOf(store, u) == IF u \in DOMAIN store THEN store[u] ELSE DefaultRecord

\* The reference Store: a valid /add (a symbol, and an amount that parses
\* as a finite number) sets assets[lowercase(symbol)], a valid /setgoal
\* (an amount that parses as an integer) sets goal, nothing else changes.
RefApply(store, e) ==
    LET base == EnsureRecord(store, e.userId) IN
    IF IsText(e) /\ Cmd(e) = ADD /\ ~Falsy(Symbol(e))
                 /\ parseFloat(Amount(e)).k = "num"
    THEN [base EXCEPT ![e.userId].assets =
              Put(@, toLowerCase(Symbol(e)), parseFloat(Amount(e)))]
    ELSE IF IsText(e) /\ Cmd(e) = SETGOAL /\ parseInt(Symbol(e)).k = "num"
    THEN [base EXCEPT ![e.userId].goal = parseInt(Symbol(e))]
    ELSE store

\* ------------------------------------------------- the command branches
\* Each gives the Store after the branch, whether it was saved, and the
\* reply the branch awaits (or the identifiers it fetches).
Outcome(data, saved, msg, ids) ==
    [data |-> data, saved |-> saved, msg |-> msg, ids |-> ids]

\* if (cmd === '/add') { ... }
OnAdd(e, data) ==
    IF AddRejected(e) THEN Outcome(data, FALSE, AddUsage, <<>>)
    ELSE Outcome(SetAsset(data, e.userId, Symbol(e), Amount(e)), TRUE,
                 Added(Symbol(e), Amount(e)), <<>>)

\* else if (cmd === '/setgoal') { ... }
OnSetGoal(e, data) ==
    IF GoalRejected(e) THEN Outcome(data, FALSE, GoalUsage, <<>>)
    ELSE Outcome(SetGoal(data, e.userId, Symbol(e)), TRUE,
                 GoalSet(Symbol(e)), <<>>)

\* Mutant: /status fetches without looking at the holdings.
OnStatus_Unguarded(e, data) ==
    Outcome(data, FALSE, NoMsg, ResolveAll(ObjectKeys(data[e.userId].assets)))
\* else if (cmd === '/status') { ... } up to the price fetch
OnStatus(e, data) ==
    LET assets == data[e.userId].assets
        ids == ResolveAll(ObjectKeys(assets))
    IN  IF DOMAIN assets = {} THEN Outcome(data, FALSE, NoHoldings, <<>>)
        ELSE IF Len(ids) = 0 THEN Outcome(data, FALSE, Unresolved, <<>>)
        ELSE Outcome(data, FALSE, NoMsg, ids)

\* else { ... }
OnHelp(e, data) == Outcome(data, FALSE, Help, <<>>)

\* The branch the command token selects.
Dispatch(e, data) ==
    CASE Cmd(e) = ADD -> OnAdd(e, data)
      [] Cmd(e) = SETGOAL -> OnSetGoal(e, data)
      [] Cmd(e) = STATUS -> OnStatus(e, data)
      [] OTHER -> OnHelp(e, data)

\* Mutant: the rate limit is not told apart.
AfterFetch_NoRateLimit(record, p) == Summary(record, p)
\* /status after the fetch: the rate-limit reply or the summary.
AfterFetch(record, p) ==
    IF p.error = "RATE_LIMIT" THEN RateLimited ELSE Summary(record, p)

\* Mutant: the error leaves the handler.
CatchPc_Rethrow == "crashed"
\* catch (err) { console.error(...) }: the loop goes on.
CatchPc == "loop"

\* ------------------------------------------------------------ actions
\* app.post('/webhook'): a delivery arrives; the handler reads the batch
\* and loads the Store.
Receive(d) ==
    /\ running = 0
    /\ pc[d] = "idle"
    /\ LET overlap == \E o \in Slots \ {d} : Active(o)
       IN  /\ overlap => overlaps < MaxOverlaps
           /\ overlaps' = IF overlap THEN overlaps + 1 ELSE overlaps
    /\ \E n \in 0..MaxBatch :
          /\ remaining' = [remaining EXCEPT ![d] = n]
          /\ http' = [http EXCEPT ![d] = [NoHttp EXCEPT !.batchLen = n]]
    /\ userData' = [userData EXCEPT ![d] = loadUserData(file)]
    /\ pc' = [pc EXCEPT ![d] = "loop"]
    /\ running' = d
    /\ UNCHANGED <<file, event, pending, prices, obs, ref, contacted, mutated>>

\* The loop takes the next event of the batch.
TakeEvent(d, e) ==
    /\ pc[d] = "loop"
    /\ running = d
    /\ remaining[d] > 0
    /\ remaining' = [remaining EXCEPT ![d] = @ - 1]
    /\ ref' = RefApply(ref, e)
    /\ prices' = [prices EXCEPT ![d] = NoPrices]
    /\ UNCHANGED overlaps

\* An event that is not a text message: continue.
TakeIgnored(d, E) ==
    \E e \in E :
        /\ Ignored(e)
        /\ TakeEvent(d, e)
        /\ obs' = [obs EXCEPT ![d] = NoObs(IsText(e), EmptyMap)]
        /\ http' = [http EXCEPT ![d].attempted = @ + 1]
        /\ UNCHANGED <<file, running, pc, userData, event, pending,
                       contacted, mutated>>

\* A message event without a message: the TypeError is caught.
TakeBroken(d, E) ==
    \E e \in E :
        /\ ThrowsOnMessage(e)
        /\ TakeEvent(d, e)
        /\ obs' = [obs EXCEPT ![d] =
                      [NoObs(IsText(e), EmptyMap) EXCEPT !.thrown = TRUE]]
        /\ http' = [http EXCEPT ![d].attempted = @ + 1, ![d].failures = @ + 1]
        /\ pc' = [pc EXCEPT ![d] = CatchPc]
        /\ running' = IF CatchPc = "loop" THEN d ELSE 0
        /\ UNCHANGED <<file, userData, event, pending, contacted, mutated>>

\* A text message: the record is created if absent, the command branch
\* runs up to its first await (the reply, or the price fetch).
TakeText(d, E) ==
    \E e \in E :
        /\ ~Ignored(e) /\ ~ThrowsOnMessage(e)
        /\ TakeEvent(d, e)
        /\ LET data == EnsureRecord(userData[d], e.userId)
               r == Dispatch(e, data)
               fetch == r.msg.kind = "none"
           IN  /\ userData' = [userData EXCEPT ![d] = r.data]
               /\ file' = IF r.saved THEN saveUserData(r.data) ELSE file
               /\ pending' = [pending EXCEPT ![d] = r.msg]
               /\ pc' = [pc EXCEPT ![d] =
                            IF fetch THEN "awaitFetch" ELSE "awaitReply"]
               /\ obs' = [obs EXCEPT ![d] =
                            [NoObs(IsText(e), userData[d]) EXCEPT
                                !.fetches = IF fetch THEN <<r.ids>> ELSE <<>>,
                                !.writes = IF r.saved THEN 1 ELSE 0,
                                !.created = (DOMAIN data # DOMAIN userData[d])]]
               /\ mutated' = IF r.saved THEN mutated \cup {e.userId} ELSE mutated
        /\ event' = [event EXCEPT ![d] = e]
        /\ contacted' = contacted \cup {e.userId}
        /\ http' = [http EXCEPT ![d].attempted = @ + 1]
        /\ running' = 0

\* await getCryptoPrices(ids) returns; /status replies.
FetchReturn(d) ==
    /\ pc[d] = "awaitFetch"
    /\ running = 0
    /\ \E response \in PriceResponses :
          /\ prices' = [prices EXCEPT ![d] = getCryptoPrices(response)]
          /\ pending' = [pending EXCEPT ![d] =
                AfterFetch(userData[d][event[d].userId],
                           getCryptoPrices(response))]
    /\ pc' = [pc EXCEPT ![d] = "awaitReply"]
    /\ UNCHANGED <<file, running, userData, remaining, event, obs, http, ref,
                   contacted, mutated, overlaps>>

\* await client.replyMessage(...) returns or throws; the loop goes on.
ReplyReturn(d) ==
    /\ pc[d] = "awaitReply"
    /\ running = 0
    /\ \E ok \in BOOLEAN :
          IF ok
          THEN /\ obs' = [obs EXCEPT ![d].replies = Append(@, pending[d].kind),
                                     ![d].before = EmptyMap]
               /\ pc' = [pc EXCEPT ![d] = "loop"]
               /\ running' = d
               /\ http' = http
          ELSE /\ obs' = [obs EXCEPT ![d].thrown = TRUE,
                                     ![d].before = EmptyMap]
               /\ pc' = [pc EXCEPT ![d] = CatchPc]
               /\ running' = IF CatchPc = "loop" THEN d ELSE 0
               /\ http' = [http EXCEPT ![d].failures = @ + 1]
    /\ event' = [event EXCEPT ![d] = NoEvent]
    /\ pending' = [pending EXCEPT ![d] = NoMsg]
    /\ UNCHANGED <<file, userData, remaining, prices, ref, contacted, mutated,
                   overlaps>>

\* res.sendStatus(200)
SendStatus(d) ==
    /\ pc[d] = "loop"
    /\ running = d
    /\ remaining[d] = 0
    /\ http' = [http EXCEPT ![d].sent200 = @ + 1]
    /\ pc' = [pc EXCEPT ![d] = "done"]
    /\ UNCHANGED <<file, running, userData, remaining, event, pending, prices,
                   obs, ref, contacted, mutated, overlaps>>

\* The handler returns; its locals are gone.
Return(d) ==
    /\ pc[d] = "done"
    /\ running = d
    /\ pc' = [pc EXCEPT ![d] = "idle"]
    /\ running' = 0
    /\ userData' = [userData EXCEPT ![d] = EmptyMap]
    /\ obs' = [obs EXCEPT ![d] = NoObs(FALSE, EmptyMap)]
    /\ http' = [http EXCEPT ![d] = NoHttp]
    /\ prices' = [prices EXCEPT ![d] = NoPrices]
    /\ UNCHANGED <<file, remaining, event, pending, ref, contacted, mutated,
                   overlaps>>

\* Deliveries may overlap at every await.
Next ==
    \E d \in Slots :
        \/ Receive(d)
        \/ TakeIgnored(d, FewEvents)
        \/ TakeBroken(d, FewEvents)
        \/ TakeText(d, FewEvents)
        \/ FetchReturn(d)
        \/ ReplyReturn(d)
        \/ SendStatus(d)
        \/ Return(d)

Spec == Init /\ [][Next]_vars

\* A delivery arrives only when no other is being handled.
Quiet == \A d \in Slots : ~Active(d)
NextSeq ==
    \E d \in Slots :
        \/ (Quiet /\ Receive(d))
        \/ TakeIgnored(d, Events)
        \/ TakeBroken(d, Events)
        \/ TakeText(d, Events)
        \/ FetchReturn(d)
        \/ ReplyReturn(d)
        \/ SendStatus(d)
        \/ Return(d)

SeqSpec == Init /\ [][NextSeq]_vars

\* ------------------------------------------------------------- claims
Awaiting(d) == pc[d] \in {"awaitReply", "awaitFetch"}
Finished(d) == pc[d] = "loop" /\ http[d].attempted > 0
Stored == JSONparse(file.text)
UserOf(d) == event[d].userId
BTC == <<"b","t","c">>
ETH == <<"e","t","h">>
XYZ == <<"x","y","z">>

\* C1: while deliveries have not overlapped, the persisted Store, and the
\* Store a handler works on, hold for every user exactly what the commands
\* so far give when applied in arrival order (a valid /add sets
\* assets[lowercase(sym)] to the amount, a valid /setgoal sets goal).
C1_ArrivalOrder ==
    overlaps = 0 =>
        /\ Quiet => \A u \in Users : RecordOf(Stored, u) = RecordOf(ref, u)
        /\ \A d \in Slots :
              Active(d) =>
                 \A u \in Users : RecordOf(userData[d], u) = RecordOf(ref, u)

\* The sum of price * quantity over a set of held symbols.
RECURSIVE SumValues(_, _, _)
SumValues(keys, assets, usd) ==
    IF keys = {} THEN Num(0)
    ELSE LET key == CHOOSE x \in keys : TRUE
         IN  Plus(Times(usd[cryptoSymbolToId(key)], assets[key]),
                  SumValues(keys \ {key}, assets, usd))

\* h is x / goal * 100 rounded to two decimals (in hundredths), x in tenths.
IsRounded(h, x, goal) ==
    LET q == Abs(x) \div goal
        r == Abs(x) % goal
        low == Abs(h) - 1000 * q
    IN  /\ Sign(h) \in {0, Sign(x)}
        /\ 2 * Abs(low * goal - 1000 * r) <= goal

\* C2: a summary computed from a successful fetch totals price * quantity
\* over exactly the held symbols a price came back for, one line each,
\* converts at 32, and reports the rounded percent of the goal, or "N/A"
\* when the goal is not positive; the worked example gives 31000, 992000
\* and 99.20.
C2_Valuation ==
    \A d \in Slots :
        (pc[d] = "awaitReply" /\ pending[d].kind = "summary"
                              /\ prices[d].error = "") =>
            LET rec == userData[d][UserOf(d)]
                usd == prices[d].usd
                sum == pending[d].body[1]
                priced == {key \in DOMAIN rec.assets :
                              cryptoSymbolToId(key) \in DOMAIN usd}
            IN  /\ sum.totalUSD = SumValues(priced, rec.assets, usd)
                /\ Len(sum.detail) = Cardinality(priced)
                /\ {sum.detail[i].symbol : i \in 1..Len(sum.detail)}
                      = {toUpperCase(key) : key \in priced}
                /\ sum.totalTWD = Times(32, sum.totalUSD)
                /\ rec.goal.v <= 0 => sum.percent = NotApplicable
                /\ (rec.goal.v > 0 /\ sum.totalTWD.k = "num") =>
                      /\ sum.percent.k = "num"
                      /\ IsRounded(sum.percent.v, sum.totalTWD.v, rec.goal.v)
                /\ (rec.goal.v > 0 /\ sum.totalTWD.k # "num") =>
                      sum.percent = sum.totalTWD
                /\ ( /\ rec.assets = (BTC :> Num(5) @@ ETH :> Num(20))
                     /\ rec.goal = Num(1000000)
                     /\ usd = ("bitcoin" :> 50000 @@ "ethereum" :> 3000) ) =>
                      /\ sum.totalUSD = Num(310000)
                      /\ sum.totalTWD = Num(9920000)
                      /\ sum.percent = Num(9920)

\* The worked example is reached, and so is a percent that needs rounding.
C2_Witness ==
    \E d \in Slots :
        /\ pc[d] = "awaitReply" /\ pending[d].kind = "summary"
        /\ prices[d].error = ""
        /\ userData[d][UserOf(d)].assets = (BTC :> Num(5) @@ ETH :> Num(20))
        /\ userData[d][UserOf(d)].goal = Num(1000000)
        /\ prices[d].usd = ("bitcoin" :> 50000 @@ "ethereum" :> 3000)
        /\ pending[d].body[1].percent = Num(9920)

\* C3: an event that is a text message gets exactly one reply once its
\* handling is over, unless the reply API threw; any other event gets no
\* reply and creates no Store entry.
C3_OneReply ==
    \A d \in Slots :
        /\ Len(obs[d].replies) <= 1
        /\ Finished(d) =>
              /\ (obs[d].isText /\ ~obs[d].thrown) => Len(obs[d].replies) = 1
              /\ ~obs[d].isText => (obs[d].replies = <<>> /\ ~obs[d].created)
        /\ (Awaiting(d) /\ ~obs[d].isText) => FALSE

\* A text event was answered once and a non-text event was passed over.
C3_Witness ==
    \E d \in Slots :
        /\ Finished(d) /\ obs[d].isText /\ ~obs[d].thrown
        /\ obs[d].replies = <<"addUsage">>
        /\ http[d].attempted = 2

\* C4: whatever fails while an event is handled, the handler goes on to
\* the next event, attempts every event of the batch in order, and sends
\* HTTP 200 exactly once, after the last of them.
C4_Always200 ==
    \A d \in Slots :
        /\ pc[d] # "crashed"
        /\ http[d].sent200 = (IF pc[d] = "done" THEN 1 ELSE 0)
        /\ Active(d) =>
              /\ http[d].attempted + remaining[d] = http[d].batchLen
              /\ Awaiting(d) => http[d].attempted > 0
        /\ pc[d] = "done" => http[d].attempted = http[d].batchLen

\* A batch whose every event failed was still answered with 200.
C4_Witness ==
    \E d \in Slots :
        /\ pc[d] = "done" /\ http[d].sent200 = 1
        /\ http[d].batchLen = 2 /\ http[d].failures = 2

\* C5: a /status fetches prices if and only if a held symbol resolves, and
\* then once, for all the resolved identifiers; with no holdings it
\* answers "no holdings", with holdings none of which resolves it answers
\* "unrecognized symbols"; it writes nothing.
C5_FetchOnlyResolved ==
    \A d \in Slots :
        (Awaiting(d) /\ Cmd(event[d]) = STATUS) =>
            LET rec == userData[d][UserOf(d)]
                resolvable == {key \in DOMAIN rec.assets :
                                  cryptoSymbolToId(key) # NoId}
                fetches == obs[d].fetches
            IN  /\ Len(fetches) = (IF resolvable # {} THEN 1 ELSE 0)
                /\ resolvable # {} =>
                      /\ Len(fetches[1]) = Cardinality(resolvable)
                      /\ {fetches[1][i] : i \in 1..Len(fetches[1])}
                            = {cryptoSymbolToId(key) : key \in resolvable}
                /\ DOMAIN rec.assets = {} =>
                      (pc[d] = "awaitReply" /\ pending[d] = NoHoldings)
                /\ (DOMAIN rec.assets # {} /\ resolvable = {}) =>
                      (pc[d] = "awaitReply" /\ pending[d] = Unresolved)
                /\ obs[d].writes = 0
                /\ \A u \in Users :
                      RecordOf(userData[d], u) = RecordOf(obs[d].before, u)

\* A /status on holdings that do not resolve answered without a fetch.
C5_Witness ==
    \E d \in Slots :
        /\ pc[d] = "awaitReply" /\ Cmd(event[d]) = STATUS
        /\ DOMAIN userData[d][UserOf(d)].assets = {XYZ}
        /\ pending[d] = Unresolved /\ obs[d].fetches = <<>>

\* C6: after a 429 from the price provider the event's one reply is the
\* rate-limit message, no summary is sent, nothing is written, and the
\* loop goes on to the next event.
C6_RateLimit ==
    \A d \in Slots :
        prices[d].error = "RATE_LIMIT" =>
            /\ obs[d].writes = 0
            /\ pc[d] \in {"awaitReply", "loop", "done"}
            /\ pc[d] = "awaitReply" =>
                  (pending[d] = RateLimited /\ obs[d].replies = <<>>)
            /\ pc[d] # "awaitReply" =>
                  \/ obs[d].replies = <<"rateLimit">>
                  \/ (obs[d].thrown /\ obs[d].replies = <<>>)

\* The rate-limit reply was sent and another event is still to come.
C6_Witness ==
    \E d \in Slots :
        /\ prices[d].error = "RATE_LIMIT" /\ pc[d] = "loop"
        /\ obs[d].replies = <<"rateLimit">> /\ remaining[d] = 1

\* C7: after a provider failure other than 429 the reply is a generic
\* failure message.
C7_GenericFailure ==
    \A d \in Slots :
        (pc[d] = "awaitReply" /\ prices[d].error = "API_ERROR") =>
            pending[d].kind = "failure"

\* C8: an /add without a symbol, or whose amount does not parse as a
\* finite number, is answered with the usage error, changes no record and
\* writes nothing.
C8_RejectedAdd ==
    \A d \in Slots :
        ( /\ pc[d] = "awaitReply" /\ Cmd(event[d]) = ADD
          /\ \/ Falsy(Symbol(event[d]))
             \/ parseFloat(Amount(event[d])).k # "num" ) =>
            /\ pending[d] = AddUsage
            /\ obs[d].writes = 0
            /\ \A u \in Users :
                  RecordOf(userData[d], u) = RecordOf(obs[d].before, u)

\* C9, as stated: between batches every user that has sent a text command
\* has an entry in the persisted Store, the default one if none of its
\* commands mutated.
C9_EveryContactStored ==
    Quiet =>
        /\ contacted \subseteq DOMAIN Stored
        /\ \A u \in contacted \ mutated :
              Stored[u] = [goal |-> Num(0), assets |-> EmptyMap]

\* C9, amended: a user whose command is being handled has an entry in the
\* handler's Store; between batches every user with an accepted /add or
\* /setgoal has an entry in the persisted Store, and a user with none has
\* no entry or the default one.
C9_ContactInMemory ==
    /\ \A d \in Slots : Awaiting(d) => UserOf(d) \in DOMAIN userData[d]
    /\ Quiet =>
          /\ mutated \subseteq DOMAIN Stored
          /\ \A u \in contacted \ mutated :
                \/ u \notin DOMAIN Stored
                \/ Stored[u] = [goal |-> Num(0), assets |-> EmptyMap]

\* A user with no accepted command has a persisted default entry, written
\* by a later /add of the same batch.
C9_Witness ==
    /\ Quiet
    /\ "U1" \in contacted \ mutated
    /\ "U1" \in DOMAIN Stored

\* C10, as stated: no step removes a user from the persisted Store.
C10_NeverDeleted ==
    [][DOMAIN JSONparse(file.text) \subseteq DOMAIN JSONparse(file'.text)]_vars

\* C10, amended: no step removes a user from the persisted Store as long
\* as no delivery has arrived while another was being handled.
C10_NeverDeletedInSequence ==
    [][overlaps' = 0 =>
          DOMAIN JSONparse(file.text) \subseteq DOMAIN JSONparse(file'.text)]_vars

\* A later delivery has written the Store and an earlier user is kept.
C10_Witness ==
    \E d \in Slots :
        /\ overlaps = 0 /\ Awaiting(d) /\ obs[d].writes = 1
        /\ \E u \in DOMAIN obs[d].before \ {UserOf(d)} : u \in DOMAIN Stored

\* A record as the data model states it: the goal a non-negative integer,
\* every key of assets equal to its own lower case, every quantity a
\* non-negative number.
WellFormed(rec) ==
    /\ rec.goal.k = "num" /\ rec.goal.v >= 0
    /\ \A key \in DOMAIN rec.assets :
          /\ toLowerCase(key) = key
          /\ rec.assets[key].k = "num" /\ rec.assets[key].v >= 0

\* C11: every record of the persisted Store, and of the Store a handler
\* works on, is well formed: goal a non-negative integer, asset keys in
\* lower case, quantities non-negative numbers.
C11_WellFormed ==
    /\ \A u \in DOMAIN Stored : WellFormed(Stored[u])
    /\ \A d \in Slots : \A u \in DOMAIN userData[d] : WellFormed(userData[d][u])

\* Something persisted is gone: going from one Store to the next while
\* event e is handled, a user's record disappears, or a goal or a held
\* quantity that e does not set is missing or different.
LostIn(before, after, e) ==
    \E u \in DOMAIN before :
        \/ u \notin DOMAIN after
        \/ /\ after[u].goal # before[u].goal
           /\ ~(e.userId = u /\ Cmd(e) = SETGOAL)
        \/ \E key \in DOMAIN before[u].assets :
              /\ ~(e.userId = u /\ Cmd(e) = ADD /\ toLowerCase(Symbol(e)) = key)
              /\ \/ key \notin DOMAIN after[u].assets
                 \/ after[u].assets[key] # before[u].assets[key]

\* C12: a write that loses something persisted is made by a delivery that
\* has handled an earlier event since it loaded the Store, whose snapshot
\* differs from the persisted Store, after deliveries have overlapped; the
\* witness is the interleaving in which a confirmed /add is lost that way.
C12_LossNeedsStaleSnapshot ==
    [][\A d \in Slots :
          (/\ pc[d] = "loop" /\ pc'[d] = "awaitReply" /\ obs'[d].writes = 1
           /\ LostIn(JSONparse(file.text), JSONparse(file'.text), event'[d]))
          => /\ overlaps > 0
             /\ http[d].attempted > 0
             /\ userData[d] # JSONparse(file.text)]_vars

\* A delivery of the single event "/add BTC 0.5" has written the Store,
\* its reply has returned without error and it has answered 200; the
\* other delivery has finished too, and the persisted Store has no btc
\* for the user.
C12_Witness ==
    \E d \in Slots :
        /\ pc[d] = "done"
        /\ \A o \in Slots \ {d} : pc[o] = "idle"
        /\ http[d].batchLen = 1 /\ http[d].failures = 0
        /\ obs[d].writes = 1 /\ obs[d].replies = <<"added">>
        /\ userData[d] = Put(EmptyMap, "U1",
                             [DefaultRecord EXCEPT !.assets = Put(EmptyMap, BTC, Num(5))])
        /\ file.exists
        /\ BTC \notin DOMAIN RecordOf(Stored, "U1").assets

\* Every delivery carries exactly one event; deliveries may overlap.
NextSingle ==
    \E d \in Slots :
        \/ (Receive(d) /\ remaining'[d] = 1)
        \/ TakeIgnored(d, SingleEvents)
        \/ TakeBroken(d, SingleEvents)
        \/ TakeText(d, SingleEvents)
        \/ FetchReturn(d)
        \/ ReplyReturn(d)
        \/ SendStatus(d)
        \/ Return(d)

SingleSpec == Init /\ [][NextSingle]_vars

\* C13: with one event per delivery, every write leaves in the persisted
\* Store exactly the Store persisted before it with the accepted command
\* applied to its user's record, and loses nothing that was persisted,
\* whatever the interleaving.
C13_AtomicUpdate ==
    [][\A d \in Slots :
          (pc[d] = "loop" /\ pc'[d] = "awaitReply" /\ obs'[d].writes = 1)
          => LET before == JSONparse(file.text)
                 e == event'[d]
             IN  /\ ~LostIn(before, JSONparse(file'.text), e)
                 /\ JSONparse(file'.text) =
                       JSONstringify(Dispatch(e, EnsureRecord(before, e.userId)).data)]_vars

\* Two overlapping deliveries have both written for the same user, one
\* an /add and one a /setgoal, and the persisted Store holds both updates.
C13_Witness ==
    /\ overlaps > 0
    /\ pc[1] = "awaitReply" /\ pc[2] = "awaitReply"
    /\ obs[1].writes = 1 /\ obs[2].writes = 1
    /\ UserOf(1) = "U1" /\ UserOf(2) = "U1"
    /\ {Cmd(event[1]), Cmd(event[2])} = {ADD, SETGOAL}
    /\ "U1" \in DOMAIN Stored
    /\ BTC \in DOMAIN Stored["U1"].assets
    /\ Stored["U1"].goal = Num(1000000)

====
